---- MODULE Spec2Model ----
(***************************************************************************)
(* Model of fritzbox_exporter.py: discovery of the pollable actions of a   *)
(* device (collect_actions), registration of lazily evaluated gauges       *)
(* (collect_variables), and the scrape-time read path (handle_read ->      *)
(* call_action -> TTLCache / client.call_action).                          *)
(*                                                                         *)
(* Names on which the program does prefix, suffix or substring tests, or   *)
(* which it rewrites (action names, state-variable names, metric names),   *)
(* are sequences of one-character strings.  Names that are only compared   *)
(* for equality (service names, argument names) are strings.               *)
(***************************************************************************)
EXTENDS Integers, Sequences, FiniteSets, TLC

VARIABLES
    client,      \* the connected device: an index into Devices
    verbose,     \* FLAGS.verbose
    workers,     \* the serving threads start_wsgi_server runs scrapes on
    now,         \* the cache timer (time.monotonic)
    gen,         \* the device's measurement generation (its readings change)
    cache,       \* the module-level TTLCache: entries in link order, oldest first
    actions,     \* main(): the list collect_actions returned
    variables,   \* collect_variables: dict metric_name -> Gauge (its registry slot)
    registry,    \* prometheus registry: metric names, one per Gauge constructed
    children,    \* per (metric_name, service, action) child: its set_function lambda
    i,           \* collect_variables: position of the loop variable `action`
    j,           \* collect_variables: position of the loop variable `key`
    key,         \* collect_variables: the loop variable `key`
    output,      \* collect_variables: the local `output`
    pc,          \* per thread: where it is
    frame,       \* per thread: the arguments of the call_action/handle_read in progress
    last,        \* the most recently completed scrape read
    prev,        \* the scrape read completed before `last`
    storedAt,    \* per cache key: the timer value of the latest store (history)
    called,      \* (service, action) pairs ever passed to client.call_action (history)
    startupCalls,\* client.call_action calls issued before serving started (history)
    registered   \* (service, action, key) triples for which set_function ran (history)

vars == <<client, verbose, workers, now, gen, cache, actions, variables, registry,
          children, i, j, key, output, pc, frame, last, prev, storedAt, called,
          startupCalls, registered>>

-----------------------------------------------------------------------------
(* Bounds of the model *)

MaxWorkers == 2
MaxTime == 15
TickStep == 5
MaxGen == 1

(* cache = TTLCache(maxsize=200, ttl=10) *)
CacheMaxSize == 200
CacheTTL == 10

-----------------------------------------------------------------------------
(* Character strings *)

Upper == {"A","B","C","D","E","F","G","H","I","J","K","L","M",
          "N","O","P","Q","R","S","T","U","V","W","X","Y","Z"}
Lower == {"a","b","c","d","e","f","g","h","i","j","k","l","m",
          "n","o","p","q","r","s","t","u","v","w","x","y","z"}
Digit == {"0","1","2","3","4","5","6","7","8","9"}

LowerOf == [c \in Upper |->
    CASE c = "A" -> "a" [] c = "B" -> "b" [] c = "C" -> "c" [] c = "D" -> "d"
      [] c = "E" -> "e" [] c = "F" -> "f" [] c = "G" -> "g" [] c = "H" -> "h"
      [] c = "I" -> "i" [] c = "J" -> "j" [] c = "K" -> "k" [] c = "L" -> "l"
      [] c = "M" -> "m" [] c = "N" -> "n" [] c = "O" -> "o" [] c = "P" -> "p"
      [] c = "Q" -> "q" [] c = "R" -> "r" [] c = "S" -> "s" [] c = "T" -> "t"
      [] c = "U" -> "u" [] c = "V" -> "v" [] c = "W" -> "w" [] c = "X" -> "x"
      [] c = "Y" -> "y" [] c = "Z" -> "z"]

\* str.startswith
StartsWith(s, p) == Len(s) >= Len(p) /\ SubSeq(s, 1, Len(p)) = p

\* str.endswith
EndsWith(s, p) == Len(s) >= Len(p) /\ SubSeq(s, Len(s) - Len(p) + 1, Len(s)) = p

\* the `in` operator on two strings
Contains(s, p) ==
    \E k \in 1..(Len(s) - Len(p) + 1) : SubSeq(s, k, k + Len(p) - 1) = p

\* str.replace(old, new) for a one-character old
RECURSIVE Replace(_, _, _)
Replace(s, old, new) ==
    IF s = <<>> THEN <<>>
    ELSE <<(IF Head(s) = old THEN new ELSE Head(s))>> \o Replace(Tail(s), old, new)

\* str.lower
RECURSIVE ToLower(_)
ToLower(s) ==
    IF s = <<>> THEN <<>>
    ELSE <<(IF Head(s) \in Upper THEN LowerOf[Head(s)] ELSE Head(s))>> \o ToLower(Tail(s))

\* re.sub(r"([A-Z]+)([A-Z][a-z])", r"\1_\2", word): the greedy [A-Z]+ leaves
\* the last capital of a run of two or more capitals that a lower-case letter
\* follows to the second group, so "_" goes in front of that capital.
AcronymBoundary(s, k) ==
    /\ k >= 2 /\ k < Len(s)
    /\ s[k - 1] \in Upper /\ s[k] \in Upper /\ s[k + 1] \in Lower

\* re.sub(r"([a-z\d])([A-Z])", r"\1_\2", word)
WordBoundary(s, k) ==
    /\ k >= 2
    /\ s[k - 1] \in Lower \cup Digit /\ s[k] \in Upper

RECURSIVE SubAcronym(_, _)
SubAcronym(s, k) ==
    IF k > Len(s) THEN <<>>
    ELSE (IF AcronymBoundary(s, k) THEN <<"_", s[k]>> ELSE <<s[k]>>)
         \o SubAcronym(s, k + 1)

RECURSIVE SubWord(_, _)
SubWord(s, k) ==
    IF k > Len(s) THEN <<>>
    ELSE (IF WordBoundary(s, k) THEN <<"_", s[k]>> ELSE <<s[k]>>)
         \o SubWord(s, k + 1)

\* inflection.underscore(word)
Underscore(word) ==
    ToLower(Replace(SubWord(SubAcronym(word, 1), 1), "-", "_"))

\* string literals of the program
s_Get == <<"G", "e", "t">>
s_Rate == <<"R", "a", "t", "e">>
s_Max == <<"M", "a", "x">>
s_Min == <<"M", "i", "n">>
s_Sent == <<"S", "e", "n", "t">>
s_Received == <<"R", "e", "c", "e", "i", "v", "e", "d">>
s_Total == <<"T", "o", "t", "a", "l">>
s_Attenuation == <<"A", "t", "t", "e", "n", "u", "a", "t", "i", "o", "n">>
s_Margin == <<"M", "a", "r", "g", "i", "n">>
s_Errors == <<"E", "r", "r", "o", "r", "s">>
s_fritzbox_ == <<"f", "r", "i", "t", "z", "b", "o", "x", "_">>

\* def metricify(service, action, variable)
metricify(service, action, variable) ==
    s_fritzbox_ \o Underscore(Replace(variable, ".", "_"))


-----------------------------------------------------------------------------
(* The device: the schema fritzconnection exposes as client.services, and   *)
(* the readings client.call_action reports.                                 *)

\* names occurring in the device schemas below and in the skip lists
s_GetTotal == <<"G", "e", "t", "T", "o", "t", "a", "l">>
s_SetEnable == <<"S", "e", "t", "E", "n", "a", "b", "l", "e">>
s_GetGenericEntry == <<"G", "e", "t", "G", "e", "n", "e", "r", "i", "c", "E", "n", "t", "r", "y">>
s_X_GetTotal == <<"X", "_", "G", "e", "t", "T", "o", "t", "a", "l">>
s_getTotal == <<"g", "e", "t", "T", "o", "t", "a", "l">>
s_GetInfo == <<"G", "e", "t", "I", "n", "f", "o">>
s_GetDefaultWEPKeyIndex == <<"G", "e", "t", "D", "e", "f", "a", "u", "l", "t", "W", "E", "P", "K", "e", "y", "I", "n", "d", "e", "x">>
s_GetLinkLayerMaxBitRates == <<"G", "e", "t", "L", "i", "n", "k", "L", "a", "y", "e", "r", "M", "a", "x", "B", "i", "t", "R", "a", "t", "e", "s">>
s_GetPersistentData == <<"G", "e", "t", "P", "e", "r", "s", "i", "s", "t", "e", "n", "t", "D", "a", "t", "a">>
s_GetStats == <<"G", "e", "t", "S", "t", "a", "t", "s">>
s_BytesSent == <<"B", "y", "t", "e", "s", "S", "e", "n", "t">>
s_TotalBytesSent == <<"T", "o", "t", "a", "l", "B", "y", "t", "e", "s", "S", "e", "n", "t">>
s_UpstreamCurrRate == <<"U", "p", "s", "t", "r", "e", "a", "m", "C", "u", "r", "r", "R", "a", "t", "e">>
s_MaxBitRate == <<"M", "a", "x", "B", "i", "t", "R", "a", "t", "e">>
s_DeviceName == <<"D", "e", "v", "i", "c", "e", "N", "a", "m", "e">>
s_CRCErrors == <<"C", "R", "C", "E", "r", "r", "o", "r", "s">>
s_TotalAssociations == <<"T", "o", "t", "a", "l", "A", "s", "s", "o", "c", "i", "a", "t", "i", "o", "n", "s">>
s_TxDOTRate == <<"T", "x", ".", "R", "a", "t", "e">>
s_Tx_Rate == <<"T", "x", "_", "R", "a", "t", "e">>
s_TxRate == <<"T", "x", "R", "a", "t", "e">>
s_MinBitRate == <<"M", "i", "n", "B", "i", "t", "R", "a", "t", "e">>
s_NoiseMargin == <<"N", "o", "i", "s", "e", "M", "a", "r", "g", "i", "n">>
s_PacketsReceived == <<"P", "a", "c", "k", "e", "t", "s", "R", "e", "c", "e", "i", "v", "e", "d">>
s_DownstreamAttenuation == <<"D", "o", "w", "n", "s", "t", "r", "e", "a", "m", "A", "t", "t", "e", "n", "u", "a", "t", "i", "o", "n">>
s_RateLimit == <<"R", "a", "t", "e", "L", "i", "m", "i", "t">>
s_MaxSent == <<"M", "a", "x", "S", "e", "n", "t">>
s_Enable == <<"E", "n", "a", "b", "l", "e">>
s_Index == <<"I", "n", "d", "e", "x">>
s_HTTPRate == <<"H", "T", "T", "P", "R", "a", "t", "e">>

\* fritzconnection StateVariable, keyed by its name in Service.state_variables
StateVariables(names) == [n \in names |-> [name |-> n, dataType |-> "ui4"]]

\* fritzconnection Argument; `reading` is the number the device reports for
\* an out argument in generation 0
Out(argument_name, related, reading) ==
    [name |-> argument_name, direction |-> "out",
     relatedStateVariable |-> related, reading |-> reading]

In(argument_name, related) ==
    [name |-> argument_name, direction |-> "in",
     relatedStateVariable |-> related, reading |-> 0]

\* one service X with one action GetTotal returning {BytesSent: 42}
DeviceX == <<
    [name |-> "X",
     actions |-> << [name |-> s_GetTotal,
                     arguments |-> << Out("BytesSent", s_BytesSent, 42) >>] >>,
     state_variables |-> StateVariables({s_BytesSent})] >>

\* a router: setters, getters with search keys, skip-listed names and
\* near misses of the naming rules
DeviceRouter == <<
    [name |-> "WANCommonIFC1",
     actions |-> <<
        [name |-> s_GetTotal,
         arguments |-> << Out("NewTotalBytesSent", s_TotalBytesSent, 100),
                          Out("NewUpstreamCurrRate", s_UpstreamCurrRate, 200),
                          Out("NewMaxBitRate", s_MaxBitRate, 300),
                          Out("NewDeviceName", s_DeviceName, 400) >>],
        [name |-> s_SetEnable,
         arguments |-> << In("NewEnable", s_Enable) >>],
        [name |-> s_GetGenericEntry,
         arguments |-> << In("NewIndex", s_Index),
                          Out("NewTotalBytesSent", s_TotalBytesSent, 500) >>],
        [name |-> s_X_GetTotal,
         arguments |-> << Out("NewTotalBytesSent", s_TotalBytesSent, 600) >>],
        [name |-> s_getTotal,
         arguments |-> << Out("NewTotalBytesSent", s_TotalBytesSent, 700) >>],
        [name |-> s_GetDefaultWEPKeyIndex,
         arguments |-> << Out("NewTotalAssociations", s_TotalAssociations, 800) >>] >>,
     state_variables |-> StateVariables({s_TotalBytesSent, s_UpstreamCurrRate,
         s_MaxBitRate, s_DeviceName, s_Enable, s_Index, s_TotalAssociations})],
    [name |-> "DeviceConfig1",
     actions |-> <<
        [name |-> s_GetPersistentData,
         arguments |-> << Out("NewCRCErrors", s_CRCErrors, 900) >>] >>,
     state_variables |-> StateVariables({s_CRCErrors})],
    [name |-> "deviceconfig1",
     actions |-> << [name |-> s_GetInfo, arguments |-> << >>] >>,
     state_variables |-> StateVariables({})] >>

\* two services whose variables derive the same metric name, one of them twice
DeviceTwin == <<
    [name |-> "S1",
     actions |-> <<
        [name |-> s_GetStats,
         arguments |-> << Out("A1", s_TxDOTRate, 10),
                          Out("A2", s_Tx_Rate, 20),
                          Out("A3", s_MinBitRate, 30) >>] >>,
     state_variables |-> StateVariables({s_TxDOTRate, s_Tx_Rate, s_MinBitRate})],
    [name |-> "S2",
     actions |-> <<
        [name |-> s_GetStats,
         arguments |-> << Out("A1", s_TxRate, 40) >>] >>,
     state_variables |-> StateVariables({s_TxRate})] >>

\* one action whose variables run through every naming rule
DeviceDsl == <<
    [name |-> "WANDSLInterfaceConfig1",
     actions |-> <<
        [name |-> s_GetStats,
         arguments |-> << Out("NewNoiseMargin", s_NoiseMargin, 10),
                          Out("NewAttenuation", s_DownstreamAttenuation, 20),
                          Out("NewPacketsReceived", s_PacketsReceived, 30),
                          Out("NewCRCErrors", s_CRCErrors, 40),
                          Out("NewHTTPRate", s_HTTPRate, 50),
                          Out("NewMaxSent", s_MaxSent, 60),
                          Out("NewRateLimit", s_RateLimit, 70),
                          Out("NewMinBitRate", s_MinBitRate, 80) >>] >>,
     state_variables |-> StateVariables({s_NoiseMargin, s_DownstreamAttenuation,
         s_PacketsReceived, s_CRCErrors, s_HTTPRate, s_MaxSent, s_RateLimit,
         s_MinBitRate})] >>

Devices == << DeviceX, DeviceRouter, DeviceTwin, DeviceDsl >>

\* client.services
services == Devices[client]

\* FLAGS.service_skiplist (default)
service_skiplist ==
    {"DeviceConfig1", "X_AVM-DE_OnTel1", "X_AVM-DE_Filelinks1", "WANIPConnection1"}

\* FLAGS.action_skiplist (default)
action_skiplist == {s_GetDefaultWEPKeyIndex, s_GetLinkLayerMaxBitRates}

-----------------------------------------------------------------------------
(* collect_actions *)

\* any() where the program has all()
just_out_parameters_any(action) ==
    \E k \in 1..Len(action.arguments) : action.arguments[k].direction = "out"

\* all([arg.direction == 'out' for arg in action.arguments.values()])
just_out_parameters(action) ==
    \A k \in 1..Len(action.arguments) : action.arguments[k].direction = "out"

\* the two `continue` tests of collect_actions
IsReadAction(action_name) == StartsWith(action_name, s_Get)

\* arguments[argument_name] = service.state_variables[argument.relatedStateVariable]
ResolveArguments(service, action) ==
    [k \in 1..Len(action.arguments) |->
        [name |-> action.arguments[k].name,
         variable |-> service.state_variables[action.arguments[k].relatedStateVariable]]]

\* Action(service_name, action_name, arguments)
MakeAction(service, action) ==
    [service_name |-> service.name, action_name |-> action.name,
     arguments |-> ResolveArguments(service, action)]

\* the inner loop of collect_actions over service.actions.items()
RECURSIVE ServiceActions(_, _)
ServiceActions(service, k) ==
    IF k > Len(service.actions) THEN <<>>
    ELSE LET action == service.actions[k]
         IN  (IF IsReadAction(action.name) /\ just_out_parameters(action)
              THEN << MakeAction(service, action) >> ELSE <<>>)
             \o ServiceActions(service, k + 1)

\* the outer loop of collect_actions over client.services.items()
RECURSIVE collect_actions(_, _)
collect_actions(svcs, k) ==
    IF k > Len(svcs) THEN <<>>
    ELSE ServiceActions(svcs[k], 1) \o collect_actions(svcs, k + 1)


-----------------------------------------------------------------------------
(* The device call *)

\* the schema entry of (service_name, action_name)
SchemaAction(service_name, action_name) ==
    LET s == CHOOSE s \in 1..Len(services) : services[s].name = service_name
        a == CHOOSE a \in 1..Len(services[s].actions) :
                 services[s].actions[a].name = action_name
    IN  services[s].actions[a]

\* client.call_action(service_name, action_name) when it returns: the mapping
\* from the out arguments to the device's readings of generation g
DeviceOutput(service_name, action_name, g) ==
    LET args == SchemaAction(service_name, action_name).arguments
        outs == {k \in 1..Len(args) : args[k].direction = "out"}
    IN  [n \in {args[k].name : k \in outs} |->
            LET k == CHOOSE k \in outs : args[k].name = n
            IN  args[k].reading + g]

\* the arguments call_action passes to client.call_action
CallArguments(a) == <<a.service_name, a.action_name>>

-----------------------------------------------------------------------------
(* cache = TTLCache(maxsize=200, ttl=10), hashkey, call_action *)

\* def hashkey(*args, **kwargs)
hashkey(action) == <<action.service_name, action.action_name>>

\* a lookup that does not look at the expiry time
CacheHit_stale(c, k, time) ==
    \E n \in 1..Len(c) : c[n].key = k

\* TTLCache.__getitem__ succeeds: the key has a link and timer() < link.expire
CacheHit(c, k, time) ==
    \E n \in 1..Len(c) : c[n].key = k /\ time < c[n].expire

\* the value TTLCache.__getitem__ returns
CacheValue(c, k) ==
    LET n == CHOOSE n \in 1..Len(c) : c[n].key = k IN c[n].value

RECURSIVE Filter(_, _, _)
Filter(c, k, time) ==
    IF c = <<>> THEN <<>>
    ELSE (IF Head(c).key # k /\ time < Head(c).expire THEN <<Head(c)>> ELSE <<>>)
         \o Filter(Tail(c), k, time)

\* a store that forgets to add the ttl
CacheSetItem_noTTL(c, k, value, time) ==
    Append(Filter(c, k, time), [key |-> k, value |-> value, expire |-> time])

\* TTLCache.__setitem__: expire(time) unlinks the expired entries, Cache.__setitem__
\* pops the oldest entries while a new key does not fit, then the key is linked
\* last with expire = time + ttl
CacheSetItem(c, k, value, time) ==
    LET live == Filter(c, <<>>, time)
        isNew == \A n \in 1..Len(live) : live[n].key # k
        room == IF isNew /\ Len(live) + 1 > CacheMaxSize
                THEN SubSeq(live, Len(live) + 2 - CacheMaxSize, Len(live))
                ELSE live
    IN  Append(Filter(room, k, time),
               [key |-> k, value |-> value, expire |-> time + CacheTTL])

-----------------------------------------------------------------------------
(* Threads: 0 is the main thread, the others serve scrapes *)

Main == 0
Threads == {Main} \cup workers

NoAction == [service_name |-> "", action_name |-> <<>>, arguments |-> <<>>]
NoSeries == <<>>
NoRead == [series |-> NoSeries, key |-> "", calls |-> 0, ok |-> FALSE,
           output |-> <<>>, value |-> 0, inWindow |-> FALSE]
NoFrame == [action |-> NoAction, key |-> "", series |-> NoSeries, calls |-> 0,
            inWindow |-> FALSE, v |-> <<>>]

\* the latest store under cache key k, -1 when there was none
StoredTime(k) == IF k \in DOMAIN storedAt THEN storedAt[k] ELSE 0 - 1

\* a lookup at this moment falls inside the validity window the latest store opened
InWindow(k) == StoredTime(k) >= 0 /\ now - StoredTime(k) < CacheTTL

\* collect_variables: the loop variable `action`
action == IF i \in 1..Len(actions) THEN actions[i] ELSE NoAction

\* output.keys(): the keys of the device's answer, in the order of the
\* action's arguments
RECURSIVE KeysFrom(_, _, _)
KeysFrom(out, a, n) ==
    IF n > Len(a.arguments) THEN <<>>
    ELSE (IF a.arguments[n].name \in DOMAIN out THEN <<a.arguments[n].name>> ELSE <<>>)
         \o KeysFrom(out, a, n + 1)

Keys(out, a) == KeysFrom(out, a, 1)

\* action.arguments[key]
StateVariable(a, k) ==
    LET n == CHOOSE n \in 1..Len(a.arguments) : a.arguments[n].name = k
    IN  a.arguments[n].variable

Init ==
    /\ client \in {1, 2}
    /\ verbose \in BOOLEAN
    /\ workers = 1..MaxWorkers
    /\ now = 0
    /\ gen = 0
    /\ cache = <<>>
    /\ actions = <<>>
    /\ variables = <<>>
    /\ registry = <<>>
    /\ children = <<>>
    /\ i = 0
    /\ j = 0
    /\ key = ""
    /\ output = <<>>
    /\ pc = [t \in Threads |-> IF t = Main THEN "collect_actions" ELSE "idle"]
    /\ frame = [t \in Threads |-> NoFrame]
    /\ last = NoRead
    /\ prev = NoRead
    /\ storedAt = <<>>
    /\ called = {}
    /\ startupCalls = 0
    /\ registered = {}


-----------------------------------------------------------------------------
(* collect_variables *)

\* the condition without the exclusion of the Max and Min rates
IsExportable_anyRate(name) ==
    \/ EndsWith(name, s_Rate)
    \/ EndsWith(name, s_Sent)
    \/ EndsWith(name, s_Received)
    \/ Contains(name, s_Total)
    \/ Contains(name, s_Attenuation)
    \/ Contains(name, s_Margin)
    \/ EndsWith(name, s_Errors)

\* the condition of lines 112-114 on state_variable.name
IsExportable(name) ==
    \/ (EndsWith(name, s_Rate) /\ ~StartsWith(name, s_Max) /\ ~StartsWith(name, s_Min))
    \/ EndsWith(name, s_Sent)
    \/ EndsWith(name, s_Received)
    \/ Contains(name, s_Total)
    \/ Contains(name, s_Attenuation)
    \/ Contains(name, s_Margin)
    \/ EndsWith(name, s_Errors)

\* only the first of the two `continue` tests
IsSkipped_serviceOnly(a) == a.service_name \in service_skiplist

\* only the second of the two `continue` tests
IsSkipped_actionOnly(a) == a.action_name \in action_skiplist

\* the two `continue` tests of collect_variables
IsSkipped(a) ==
    a.service_name \in service_skiplist \/ a.action_name \in action_skiplist

\* a Gauge constructed for every exportable variable
MustConstruct_always(metric_name, vs) == TRUE

\* variables[metric_name] if metric_name in variables else Gauge(metric_name, ...)
MustConstruct(metric_name, vs) == metric_name \notin DOMAIN vs

\* lambda action=action, key=key: ...  -- the defaults are evaluated where the
\* lambda is defined, inside the loop
LambdaDefaults(a, k) == [action |-> a, key |-> k]

\* a lambda without defaults: `action` and `key` are looked up in the
\* enclosing scope when the child calls it
LambdaCall_late(defaults) == [action |-> action, key |-> key]

\* the parameters of the lambda when the child calls it with no arguments
LambdaCall(defaults) == defaults

\* Extend or overwrite a dict
Put(f, x, y) == [z \in DOMAIN f \cup {x} |-> IF z = x THEN y ELSE f[z]]

\* a read completes: what handle_read hands back (output[key]) and what it cost
ReadRecord(fr, out, isOk) ==
    [series |-> fr.series, key |-> fr.key, calls |-> fr.calls,
     ok |-> isOk /\ fr.key \in DOMAIN out, output |-> out,
     value |-> IF isOk /\ fr.key \in DOMAIN out THEN out[fr.key] ELSE 0,
     inWindow |-> fr.inWindow]

\* actions = collect_actions(client)
CollectActions ==
    /\ pc[Main] = "collect_actions"
    /\ actions' = collect_actions(services, 1)
    /\ pc' = [pc EXCEPT ![Main] = "for_action"]
    /\ UNCHANGED <<client, verbose, workers, now, gen, cache, variables, registry,
                   children, i, j, key, output, frame, last, prev, storedAt, called,
                   startupCalls, registered>>

\* for action in actions: ... continue (lines 99-103)
SkipAction ==
    /\ pc[Main] = "for_action"
    /\ i < Len(actions)
    /\ IsSkipped(actions[i + 1])
    /\ i' = i + 1
    /\ UNCHANGED <<client, verbose, workers, now, gen, cache, actions, variables,
                   registry, children, j, key, output, pc, frame, last, prev,
                   storedAt, called, startupCalls, registered>>

\* output = call_action(client, action) (line 105), up to the cache lookup of
\* the cachedmethod wrapper
StartupCallAction ==
    /\ pc[Main] = "for_action"
    /\ i < Len(actions)
    /\ ~IsSkipped(actions[i + 1])
    /\ i' = i + 1
    /\ LET a == actions[i + 1]
           k == hashkey(a)
       IN  IF CacheHit(cache, k, now)
           THEN /\ output' = CacheValue(cache, k)
                /\ j' = 0
                /\ pc' = [pc EXCEPT ![Main] = "for_key"]
                /\ UNCHANGED <<frame, called, startupCalls>>
           ELSE /\ pc' = [pc EXCEPT ![Main] = "client_call"]
                /\ frame' = [frame EXCEPT ![Main] = [NoFrame EXCEPT
                                !.action = a, !.calls = 1, !.inWindow = InWindow(k)]]
                /\ called' = called \cup {CallArguments(a)}
                /\ startupCalls' = startupCalls + 1
                /\ UNCHANGED <<output, j>>
    /\ UNCHANGED <<client, verbose, workers, now, gen, cache, actions, variables,
                   registry, children, key, last, prev, storedAt, registered>>

\* for key in output.keys(): one pass of the loop body (lines 106-128), up to
\* the cache lookup of the verbose handle_read
RegisterKey ==
    /\ pc[Main] = "for_key"
    /\ j < Len(Keys(output, action))
    /\ LET k == Keys(output, action)[j + 1]
           name == StateVariable(action, k).name
           metric_name == metricify(action.service_name, action.action_name, name)
           series == <<metric_name, action.service_name, action.action_name>>
           ck == hashkey(action)
       IN  /\ j' = j + 1
           /\ key' = k
           /\ IF IsExportable(name)
              THEN IF MustConstruct(metric_name, variables)
                        /\ \E n \in 1..Len(registry) : registry[n] = metric_name
                   THEN \* Gauge(...) raises ValueError: duplicated timeseries
                        /\ pc' = [pc EXCEPT ![Main] = "duplicate_timeseries"]
                        /\ UNCHANGED <<variables, registry, children, registered,
                                       frame, called, startupCalls>>
                   ELSE /\ IF MustConstruct(metric_name, variables)
                           THEN /\ registry' = Append(registry, metric_name)
                                /\ variables' = Put(variables, metric_name,
                                                    Len(registry) + 1)
                           ELSE UNCHANGED <<variables, registry>>
                        /\ children' = Put(children, series, LambdaDefaults(action, k))
                        /\ registered' = registered \cup
                               {<<action.service_name, action.action_name, k>>}
                        /\ IF verbose /\ ~CacheHit(cache, ck, now)
                           THEN /\ pc' = [pc EXCEPT ![Main] = "client_call"]
                                /\ frame' = [frame EXCEPT ![Main] = [NoFrame EXCEPT
                                       !.action = action, !.key = k, !.calls = 1,
                                       !.inWindow = InWindow(ck)]]
                                /\ called' = called \cup {CallArguments(action)}
                                /\ startupCalls' = startupCalls + 1
                           ELSE UNCHANGED <<pc, frame, called, startupCalls>>
              ELSE UNCHANGED <<variables, registry, children, registered, pc, frame,
                               called, startupCalls>>
    /\ UNCHANGED <<client, verbose, workers, now, gen, cache, actions, i, output,
                   last, prev, storedAt>>

\* the inner loop is exhausted: back to the head of the outer loop
EndKeys ==
    /\ pc[Main] = "for_key"
    /\ j = Len(Keys(output, action))
    /\ pc' = [pc EXCEPT ![Main] = "for_action"]
    /\ UNCHANGED <<client, verbose, workers, now, gen, cache, actions, variables,
                   registry, children, i, j, key, output, frame, last, prev,
                   storedAt, called, startupCalls, registered>>

\* return variables; main() goes on to start_wsgi_server and exit.wait()
StartServing ==
    /\ pc[Main] = "for_action"
    /\ i = Len(actions)
    /\ pc' = [pc EXCEPT ![Main] = "serving"]
    /\ UNCHANGED <<client, verbose, workers, now, gen, cache, actions, variables,
                   registry, children, i, j, key, output, frame, last, prev,
                   storedAt, called, startupCalls, registered>>

-----------------------------------------------------------------------------
(* The read path *)

\* a scrape evaluates the function of one child: handle_read(client, action, key),
\* up to the cache lookup of the cachedmethod wrapper
Scrape(t, s) ==
    /\ t \in workers
    /\ pc[Main] = "serving"
    /\ pc[t] = "idle"
    /\ LET b == LambdaCall(children[s])
           k == hashkey(b.action)
           fr == [NoFrame EXCEPT !.action = b.action, !.key = b.key, !.series = s,
                                 !.inWindow = InWindow(k)]
       IN  IF CacheHit(cache, k, now)
           THEN /\ last' = ReadRecord(fr, CacheValue(cache, k), TRUE)
                /\ prev' = last
                /\ UNCHANGED <<pc, frame, called>>
           ELSE /\ pc' = [pc EXCEPT ![t] = "client_call"]
                /\ frame' = [frame EXCEPT ![t] = [fr EXCEPT !.calls = 1]]
                /\ called' = called \cup {CallArguments(b.action)}
                /\ UNCHANGED <<last, prev>>
    /\ UNCHANGED <<client, verbose, workers, now, gen, cache, actions, variables,
                   registry, children, i, j, key, output, storedAt, startupCalls,
                   registered>>

\* client.call_action(action.service_name, action.action_name) returns
ClientCallReturn(t) ==
    /\ pc[t] = "client_call"
    /\ pc' = [pc EXCEPT ![t] = "store"]
    /\ frame' = [frame EXCEPT ![t].v =
           DeviceOutput(frame[t].action.service_name, frame[t].action.action_name, gen)]
    /\ UNCHANGED <<client, verbose, workers, now, gen, cache, actions, variables,
                   registry, children, i, j, key, output, last, prev, storedAt,
                   called, startupCalls, registered>>

\* a wrapper that stores the failure in place of a mapping
ClientCallRaise_cached(t) ==
    /\ pc[t] = "client_call"
    /\ cache' = CacheSetItem(cache, hashkey(frame[t].action), <<>>, now)
    /\ frame' = [frame EXCEPT ![t] = NoFrame]
    /\ IF t = Main
       THEN /\ pc' = [pc EXCEPT ![t] = "crashed"]
            /\ UNCHANGED <<last, prev>>
       ELSE /\ pc' = [pc EXCEPT ![t] = "idle"]
            /\ last' = ReadRecord(frame[t], <<>>, FALSE)
            /\ prev' = last
    /\ UNCHANGED <<client, verbose, workers, now, gen, actions, variables,
                   registry, children, i, j, key, output, storedAt, called,
                   startupCalls, registered>>

\* client.call_action raises: nothing is stored, the exception leaves
\* call_action, handle_read and, at startup, collect_variables and main
ClientCallRaise(t) ==
    /\ pc[t] = "client_call"
    /\ frame' = [frame EXCEPT ![t] = NoFrame]
    /\ IF t = Main
       THEN /\ pc' = [pc EXCEPT ![t] = "crashed"]
            /\ UNCHANGED <<last, prev>>
       ELSE /\ pc' = [pc EXCEPT ![t] = "idle"]
            /\ last' = ReadRecord(frame[t], <<>>, FALSE)
            /\ prev' = last
    /\ UNCHANGED <<client, verbose, workers, now, gen, cache, actions, variables,
                   registry, children, i, j, key, output, storedAt, called,
                   startupCalls, registered>>

\* c[k] = v; return v -- and the caller's use of the returned mapping
CacheStore(t) ==
    /\ pc[t] = "store"
    /\ cache' = CacheSetItem(cache, hashkey(frame[t].action), frame[t].v, now)
    /\ storedAt' = Put(storedAt, hashkey(frame[t].action), now)
    /\ frame' = [frame EXCEPT ![t] = NoFrame]
    /\ IF t = Main
       THEN /\ pc' = [pc EXCEPT ![t] = "for_key"]
            /\ IF frame[t].key = ""
               THEN output' = frame[t].v /\ j' = 0
               ELSE UNCHANGED <<output, j>>
            /\ UNCHANGED <<last, prev>>
       ELSE /\ pc' = [pc EXCEPT ![t] = "idle"]
            /\ last' = ReadRecord(frame[t], frame[t].v, TRUE)
            /\ prev' = last
            /\ UNCHANGED <<output, j>>
    /\ UNCHANGED <<client, verbose, workers, now, gen, actions, variables, registry,
                   children, i, key, called, startupCalls, registered>>

-----------------------------------------------------------------------------
(* The environment *)

\* time passes
Tick ==
    /\ now + TickStep <= MaxTime
    /\ now' = now + TickStep
    /\ UNCHANGED <<client, verbose, workers, gen, cache, actions, variables, registry,
                   children, i, j, key, output, pc, frame, last, prev, storedAt,
                   called, startupCalls, registered>>

\* the device's readings change
DeviceChange ==
    /\ gen < MaxGen
    /\ gen' = gen + 1
    /\ UNCHANGED <<client, verbose, workers, now, cache, actions, variables, registry,
                   children, i, j, key, output, pc, frame, last, prev, storedAt,
                   called, startupCalls, registered>>

Next ==
    \/ CollectActions
    \/ SkipAction
    \/ StartupCallAction
    \/ RegisterKey
    \/ EndKeys
    \/ StartServing
    \/ \E t \in workers, s \in DOMAIN children : Scrape(t, s)
    \/ \E t \in Threads : ClientCallReturn(t)
    \/ \E t \in Threads : ClientCallRaise(t)
    \/ \E t \in Threads : CacheStore(t)
    \/ Tick
    \/ DeviceChange

\* scrapes served on MaxWorkers threads at once, for DeviceX and DeviceRouter
Spec == Init /\ [][Next]_vars

\* scrapes that do not overlap: one serving thread, every device
InitSequential ==
    /\ client \in DOMAIN Devices
    /\ verbose \in BOOLEAN
    /\ workers = {1}
    /\ now = 0
    /\ gen = 0
    /\ cache = <<>>
    /\ actions = <<>>
    /\ variables = <<>>
    /\ registry = <<>>
    /\ children = <<>>
    /\ i = 0
    /\ j = 0
    /\ key = ""
    /\ output = <<>>
    /\ pc = [t \in Threads |-> IF t = Main THEN "collect_actions" ELSE "idle"]
    /\ frame = [t \in Threads |-> NoFrame]
    /\ last = NoRead
    /\ prev = NoRead
    /\ storedAt = <<>>
    /\ called = {}
    /\ startupCalls = 0
    /\ registered = {}

SpecSequential == InitSequential /\ [][Next]_vars


-----------------------------------------------------------------------------
(* Vocabulary of the properties, stated on the device schema itself *)

Serving == pc[Main] = "serving"

\* the (service, action) index pairs of the schema
SchemaOps ==
    UNION {{<<s, a>> : a \in 1..Len(services[s].actions)} : s \in 1..Len(services)}

OpService(op) == services[op[1]].name
OpAction(op) == services[op[1]].actions[op[2]]
OpKey(op) == <<OpService(op), OpAction(op).name>>

HasGetPrefix(name) ==
    Len(name) >= 3 /\ name[1] = "G" /\ name[2] = "e" /\ name[3] = "t"

HasInputArgument(a) ==
    \E k \in 1..Len(a.arguments) : a.arguments[k].direction = "in"

\* read operations without input arguments
ReadOps ==
    {op \in SchemaOps : HasGetPrefix(OpAction(op).name) /\ ~HasInputArgument(OpAction(op))}

\* operations named by a skip list
SkipListed(op) ==
    \/ OpService(op) \in service_skiplist
    \/ OpAction(op).name \in action_skiplist

\* the operations the exporter may poll
Pollable == {op \in ReadOps : ~SkipListed(op)}

\* the name of the state variable behind argument k of an operation
OpVariable(op, k) == OpAction(op).arguments[k].relatedStateVariable

\* the outputs of the pollable operations: (operation, argument position)
PollableOutputs ==
    UNION {{<<op, k>> : k \in 1..Len(OpAction(op).arguments)} : op \in Pollable}

\* the (service, action, key) triple of an output
Triple(o) == <<OpService(o[1]), OpAction(o[1]).name, OpAction(o[1]).arguments[o[2]].name>>

\* the operation a series is labelled with
SeriesOp(series) == <<series[2], series[3]>>

\* a scrape read has completed
IsRead(r) == r.series # NoSeries

\* a thread has a device call outstanding, or its answer not yet stored
InCall(t) == pc[t] \in {"client_call", "store"}

\* the entry the cache holds under key k
Entries(k) == {n \in 1..Len(cache) : cache[n].key = k}

s_fritzbox_bytes_sent == s_fritzbox_ \o <<"b","y","t","e","s","_","s","e","n","t">>
s_fritzbox_tx_rate == s_fritzbox_ \o <<"t","x","_","r","a","t","e">>

\* the names of the state variables of all devices
VariableNames ==
    UNION {UNION {DOMAIN Devices[d][s].state_variables : s \in 1..Len(Devices[d])} :
              d \in DOMAIN Devices}

\* the metric name each of them derives
DerivedName == [n \in VariableNames |-> metricify("", <<>>, n)]

\* the metric name an output's state variable derives
MetricName(o) == DerivedName[OpVariable(o[1], o[2])]

\* the series an output is exported as
SeriesOf(o) == <<MetricName(o), OpService(o[1]), OpAction(o[1]).name>>

\* the outputs for which a registration has run
RegisteredOutputs == {o \in PollableOutputs : Triple(o) \in registered}

\* the naming rule as the documentation words it
NamedForExport(name) ==
    \/ EndsWith(name, s_Rate) /\ ~(StartsWith(name, s_Max) \/ StartsWith(name, s_Min))
    \/ EndsWith(name, s_Sent)
    \/ EndsWith(name, s_Received)
    \/ Contains(name, s_Total)
    \/ Contains(name, s_Attenuation)
    \/ Contains(name, s_Margin)
    \/ EndsWith(name, s_Errors)

-----------------------------------------------------------------------------
(* Properties *)

\* C1: two scrape reads of the same operation never both have a device call
\* outstanding: readers that find the entry missing or expired do not both
\* issue client.call_action.
C1_SingleFlight ==
    \A t1 \in workers, t2 \in workers :
        (t1 # t2 /\ InCall(t1) /\ InCall(t2))
            => hashkey(frame[t1].action) # hashkey(frame[t2].action)

\* C2: of two consecutive scrape reads of two different keys of one operation,
\* the first finding no unexpired entry and returning a mapping, the second
\* looking up inside the validity window of that store, exactly one issues a
\* device call, and the second returns from the mapping the first one cached.
C2_SecondReadServedFromCache ==
    (/\ IsRead(prev) /\ IsRead(last)
     /\ SeriesOp(prev.series) = SeriesOp(last.series)
     /\ prev.key # last.key
     /\ prev.calls = 1 /\ prev.ok
     /\ last.inWindow)
        => /\ last.calls = 0
           /\ prev.calls + last.calls = 1
           /\ last.ok
           /\ last.output = prev.output
           /\ last.value = prev.output[last.key]

C2_Witness ==
    /\ IsRead(prev) /\ IsRead(last)
    /\ SeriesOp(prev.series) = SeriesOp(last.series)
    /\ prev.key # last.key
    /\ prev.calls = 1 /\ prev.ok /\ ~prev.inWindow
    /\ last.inWindow /\ last.calls = 0 /\ last.value = prev.output[last.key]

\* C3: a scrape read that looks up after the validity window of the latest
\* store has elapsed issues exactly one device call, a read served without a
\* call lies inside that window, and once the call has returned the cache
\* holds the new mapping under the operation, valid for one TTL from the
\* store, while the cache is below its capacity.
C3_RefreshAfterExpiry ==
    /\ (IsRead(last) /\ ~last.inWindow) => last.calls = 1
    /\ (IsRead(last) /\ last.calls = 0) => last.inWindow
    /\ (IsRead(last) /\ last.calls = 1 /\ last.ok /\ \A t \in workers : pc[t] = "idle")
          => LET k == SeriesOp(last.series)
             IN  /\ Cardinality(Entries(k)) = 1
                 /\ \A n \in Entries(k) :
                       /\ cache[n].value = last.output
                       /\ cache[n].expire = StoredTime(k) + CacheTTL
                 /\ Len(cache) < CacheMaxSize

C3_Witness ==
    /\ IsRead(prev) /\ IsRead(last)
    /\ SeriesOp(prev.series) = SeriesOp(last.series)
    /\ prev.ok /\ last.ok
    /\ ~last.inWindow /\ last.calls = 1
    /\ last.output # prev.output
    /\ \E n \in Entries(SeriesOp(last.series)) : cache[n].value = last.output
    /\ Len(cache) < CacheMaxSize

\* C4: a scrape read fails only through a device call of its own (a failure is
\* never replayed from the cache), the step on which it fails leaves every
\* cache entry as it was, and the read of the same operation that follows a
\* failed read issues a new device call.
C4_FailureNotCached ==
    [][ /\ (last' # last /\ ~last'.ok) => (last'.calls = 1 /\ cache' = cache)
        /\ (last' # last /\ IsRead(last) /\ ~last.ok
              /\ SeriesOp(last'.series) = SeriesOp(last.series)) => last'.calls = 1
      ]_vars

C4_Witness ==
    /\ IsRead(prev) /\ ~prev.ok /\ prev.calls = 1
    /\ IsRead(last) /\ last.ok /\ last.calls = 1
    /\ SeriesOp(prev.series) = SeriesOp(last.series)
    /\ Len(cache) >= 2

\* C5: once collect_actions has returned, every listed operation has a name
\* starting with "Get" and no argument of direction "in" (zero arguments
\* included), and every such operation of the schema is listed.
C5_CollectActionsExact ==
    pc[Main] # "collect_actions" =>
        /\ \A n \in 1..Len(actions) :
              /\ HasGetPrefix(actions[n].action_name)
              /\ \E op \in SchemaOps :
                    /\ OpKey(op) = hashkey(actions[n])
                    /\ ~HasInputArgument(OpAction(op))
                    /\ Len(actions[n].arguments) = Len(OpAction(op).arguments)
        /\ \A op \in ReadOps : \E n \in 1..Len(actions) : hashkey(actions[n]) = OpKey(op)

C5_Witness ==
    /\ pc[Main] # "collect_actions"
    /\ Len(actions) = 4
    /\ \E n \in 1..Len(actions) : actions[n].arguments = <<>>
    /\ \E op \in SchemaOps : HasGetPrefix(OpAction(op).name) /\ HasInputArgument(OpAction(op))
    /\ \E op \in SchemaOps : ~HasGetPrefix(OpAction(op).name) /\ ~HasInputArgument(OpAction(op))

\* C6: an operation whose service name or action name is in a skip list is
\* never passed to client.call_action, at startup or in a scrape, never has a
\* cache entry, and never has a series or a registration.
C6_SkipListedNeverPolled ==
    \A op \in SchemaOps : SkipListed(op) =>
        /\ OpKey(op) \notin called
        /\ Entries(OpKey(op)) = {}
        /\ \A t \in Threads : InCall(t) => CallArguments(frame[t].action) # OpKey(op)
        /\ \A s \in DOMAIN children : SeriesOp(s) # OpKey(op)
        /\ \A r \in registered : <<r[1], r[2]>> # OpKey(op)

C6_Witness ==
    /\ Serving
    /\ \E op \in ReadOps : OpService(op) \in service_skiplist
    /\ \E op \in ReadOps : OpAction(op).name \in action_skiplist
    /\ <<"deviceconfig1", s_GetInfo>> \in called
    /\ IsRead(last)

\* C7 as stated: registration issues no device call, so no call has been
\* issued by the main thread and none is outstanding outside a scrape.
C7_NoCallBeforeFirstScrape ==
    /\ startupCalls = 0
    /\ \A t \in Threads : InCall(t) => t \in workers

\* C7 as amended: registration issues one device call per pollable operation
\* (more only with the verbose flag), only for pollable operations; once
\* serving, a device call is outstanding only in a thread that is reading a
\* registered series with the arguments bound to that series.
C7_CallsAtStartupThenOnDemand ==
    /\ Serving => /\ startupCalls >= Cardinality(Pollable)
                  /\ ~verbose => startupCalls = Cardinality(Pollable)
    /\ called \subseteq {OpKey(op) : op \in Pollable}
    /\ InCall(Main) => ~Serving
    /\ \A t \in workers : InCall(t) =>
          /\ Serving
          /\ frame[t].series \in DOMAIN children
          /\ children[frame[t].series] = [action |-> frame[t].action, key |-> frame[t].key]

C7_Witness ==
    /\ Serving
    /\ Cardinality(Pollable) = 2
    /\ startupCalls = 2
    /\ ~IsRead(last)
    /\ \A t \in workers : pc[t] = "idle"

\* C8: every series is bound to the operation it is labelled with and to a
\* key registered for it under its metric name; a scrape of the series
\* returns the value under that key in a mapping the device reported for that
\* operation; the device X/GetTotal -> {BytesSent: 42} has exactly the series
\* fritzbox_bytes_sent{service=X, action=GetTotal}, scraped as 42.
C8_SeriesBoundToOwnOutput ==
    /\ LET ro == RegisteredOutputs
           seriesOf == [o \in ro |-> SeriesOf(o)]
       IN  \A s \in DOMAIN children :
              LET b == LambdaCall(children[s])
              IN  /\ hashkey(b.action) = SeriesOp(s)
                  /\ \E o \in ro : seriesOf[o] = s /\ Triple(o)[3] = b.key
    /\ (IsRead(last) /\ last.ok) =>
          LET s == last.series
          IN  /\ \E g \in 0..gen : last.output = DeviceOutput(s[2], s[3], g)
              /\ last.value = last.output[children[s].key]
    /\ (client = 1 /\ Serving) =>
          /\ DOMAIN children = {<<s_fritzbox_bytes_sent, "X", s_GetTotal>>}
          /\ (IsRead(last) /\ last.ok /\ gen = 0) => last.value = 42

C8_Witness ==
    /\ client = 1 /\ Serving /\ gen = 0
    /\ IsRead(last) /\ last.ok /\ last.value = 42
    /\ last.series = <<s_fritzbox_bytes_sent, "X", s_GetTotal>>

\* C9: a registration runs for an output of a pollable operation exactly when
\* the name of its state variable ends with "Rate" without starting with
\* "Max" or "Min", ends with "Sent", "Received" or "Errors", or contains
\* "Total", "Attenuation" or "Margin".
C9_ExportedIffNamed ==
    /\ registered \subseteq
          {Triple(o) : o \in {x \in PollableOutputs : NamedForExport(OpVariable(x[1], x[2]))}}
    /\ Serving =>
          registered =
             {Triple(o) : o \in {x \in PollableOutputs : NamedForExport(OpVariable(x[1], x[2]))}}
    /\ (client = 2 /\ Serving) =>
          registered = {<<"WANCommonIFC1", s_GetTotal, "NewTotalBytesSent">>,
                        <<"WANCommonIFC1", s_GetTotal, "NewUpstreamCurrRate">>}

C9_Witness ==
    /\ client = 4 /\ Serving
    /\ Cardinality(registered) = 6
    /\ <<"WANDSLInterfaceConfig1", s_GetStats, "NewMinBitRate">> \notin registered
    /\ <<"WANDSLInterfaceConfig1", s_GetStats, "NewRateLimit">> \notin registered

\* C10: the registry holds one Gauge per derived metric name, the one
\* `variables` holds under that name; the metric names and the series are
\* those of the registered outputs; a series registered more than once is
\* bound to the latest registration, and no registration raises.
C10_OneGaugePerName ==
    LET ro == RegisteredOutputs
        seriesOf == [o \in ro |-> SeriesOf(o)]
    IN  /\ pc[Main] # "duplicate_timeseries"
        /\ \A m \in 1..Len(registry), n \in 1..Len(registry) :
              registry[m] = registry[n] => m = n
        /\ DOMAIN variables = {registry[n] : n \in 1..Len(registry)}
        /\ \A name \in DOMAIN variables : registry[variables[name]] = name
        /\ DOMAIN variables = {seriesOf[o][1] : o \in ro}
        /\ DOMAIN children = {seriesOf[o] : o \in ro}
        /\ \A s \in DOMAIN children :
              \E o \in ro :
                 /\ seriesOf[o] = s
                 /\ \A p \in ro : seriesOf[p] = s => p[2] <= o[2]
                 /\ children[s].key = Triple(o)[3]
                 /\ hashkey(children[s].action) = OpKey(o[1])

C10_Witness ==
    /\ client = 3 /\ Serving
    /\ Cardinality(registered) = 3
    /\ registry = <<s_fritzbox_tx_rate>>
    /\ DOMAIN children = {<<s_fritzbox_tx_rate, "S1", s_GetStats>>,
                          <<s_fritzbox_tx_rate, "S2", s_GetStats>>}
    /\ children[<<s_fritzbox_tx_rate, "S1", s_GetStats>>].key = "A2"

====
